---- MODULE Spec2Model ----
(***************************************************************************)
(* Model of the OCR utility: OCRProcessor (ocr_utils.py) and the command   *)
(* line front end main() (main.py).                                        *)
(*                                                                         *)
(* The wrapped PaddleOCR engine is external.  An engine handle is modelled *)
(* by what its .ocr(image, cls=True) call does on the one valid image of   *)
(* the model: it raises, or it returns a raw result.  Raw results range    *)
(* over the shapes _process_ocr_results distinguishes: None, [], [None],   *)
(* and one page of lines, a line being either short (fewer than two        *)
(* fields) or [bbox, text_info] with a four point bbox.                    *)
(*                                                                         *)
(* Spec is the program: construction, queries and main().  SpecNormalizer  *)
(* applies _process_ocr_results alone to every raw result of up to         *)
(* MaxLines lines.                                                         *)
(*                                                                         *)
(* Numbers: a confidence c in [0,1] is the integer 1000*c; texts are       *)
(* sequences of one-character strings.                                     *)
(***************************************************************************)
EXTENDS Integers, Sequences, FiniteSets, TLC

VARIABLES
    pc,          \* position of the caller: start, init_models, ready, init_failed, exit
    mode,        \* "none" before the program starts, then "lib" or "cli"
    languages,   \* self.languages
    ocr_models,  \* self.ocr_models: language code -> engine handle
    idx,         \* position of the loop of _initialize_models in self.languages
    built,       \* number of PaddleOCR(...) constructor calls made so far
    init_log,    \* log records emitted by _initialize_models
    image_path,  \* args.image_path of main(): the condition of the file it names
    console,     \* lines printed by main()
    query,       \* (image_path, language) of the most recent query
    texts,       \* outcome of the most recent extract_text_only(query)
    detailed,    \* outcome of the most recent get_detailed_results(query)
    normalizer   \* SpecNormalizer: the arguments and the result of _process_ocr_results

vars == <<pc, mode, languages, ocr_models, idx, built, init_log, image_path,
          console, query, texts, detailed, normalizer>>

-----------------------------------------------------------------------------
(* Bounds and input domains *)

MaxLangs == 3      \* longest language list given to the constructor
MaxLines == 3      \* most lines in one raw engine result

Codes == {"en", "hi"}

NONE == "<None>"   \* Python's None as a language argument or image path

RECURSIVE SeqsUpTo(_, _)
SeqsUpTo(S, n) ==
    IF n = 0 THEN {<<>>}
    ELSE LET shorter == SeqsUpTo(S, n - 1)
         IN  shorter \cup {Append(s, x) : s \in {t \in shorter : Len(t) = n - 1}, x \in S}

LangLists == SeqsUpTo(Codes, MaxLangs)

\* The file named by an image path: absent, present but not decodable, decodable.
Images == {"missing", "invalid", "valid"}

\* language arguments of a query: None, the empty string, or a code
LangArgs == {NONE, ""} \cup Codes

Range(s) == {s[i] : i \in 1..Len(s)}

-----------------------------------------------------------------------------
(* Raw engine output *)

PolyAxis == <<<<0, 0>>, <<4, 0>>, <<4, 2>>, <<0, 2>>>>
\* a rotated box, listed from its right corner
PolyRot  == <<<<5, 3>>, <<3, 5>>, <<0, 2>>, <<2, 0>>>>

NoInfo == [isTuple |-> FALSE, len |-> 0, text |-> <<>>, conf |-> 0]

\* []: a line with no field
EmptyLine == [len |-> 0, bbox |-> <<>>, info |-> NoInfo]
\* [bbox]: a line with one field
ShortLine == [len |-> 1, bbox |-> PolyAxis, info |-> NoInfo]
\* [bbox, ("a", 0.95)]
PairLine  == [len |-> 2, bbox |-> PolyAxis,
              info |-> [isTuple |-> TRUE, len |-> 2, text |-> <<"a">>, conf |-> 950]]
\* [bbox, (" ", 0.0)]: recognised text that is only whitespace
BlankLine == [len |-> 2, bbox |-> PolyRot,
              info |-> [isTuple |-> TRUE, len |-> 2, text |-> <<" ">>, conf |-> 0]]
\* [bbox, "a "]: a bare text value, no confidence supplied
BareLine  == [len |-> 2, bbox |-> PolyRot,
              info |-> [isTuple |-> FALSE, len |-> 0, text |-> <<"a", " ">>, conf |-> 0]]

\* [bbox, ("a",)]: a tuple without a confidence
LoneLine  == [len |-> 2, bbox |-> PolyAxis,
              info |-> [isTuple |-> TRUE, len |-> 1, text |-> <<"a">>, conf |-> 0]]

Lines == {EmptyLine, ShortLine, PairLine, BlankLine, BareLine, LoneLine}

RawNone     == [isNone |-> TRUE,  pages |-> <<>>]                  \* None
RawEmpty    == [isNone |-> FALSE, pages |-> <<>>]                  \* []
RawNonePage == [isNone |-> FALSE,
                pages |-> <<[isNone |-> TRUE, lines |-> <<>>]>>]   \* [None]
RawPage(ls) == [isNone |-> FALSE,
                pages |-> <<[isNone |-> FALSE, lines |-> ls]>>]    \* [[line, ...]]

\* the raw results SpecNormalizer applies _process_ocr_results to
RawResults == {RawNone, RawEmpty, RawNonePage}
                \cup {RawPage(ls) : ls \in SeqsUpTo(Lines, MaxLines)}

\* the raw results an engine of Spec returns for the valid image
EngineResults ==
    {RawNone,
     RawEmpty,
     RawNonePage,
     RawPage(<<ShortLine>>),
     RawPage(<<PairLine>>),
     RawPage(<<BlankLine, PairLine>>),
     RawPage(<<BareLine, ShortLine, BlankLine>>)}

\* What one engine handle does when its ocr() is called on the valid image.
EngineBehaviours ==
    {[raises |-> TRUE, out |-> RawNone]}
        \cup {[raises |-> FALSE, out |-> r] : r \in EngineResults}

-----------------------------------------------------------------------------
(* Python helpers *)

Whitespace == {" ", "\t", "\n"}

RECURSIVE LStrip(_)
LStrip(s) == IF s # <<>> /\ Head(s) \in Whitespace THEN LStrip(Tail(s)) ELSE s

RECURSIVE RStrip(_)
RStrip(s) ==
    IF s # <<>> /\ s[Len(s)] \in Whitespace THEN RStrip(SubSeq(s, 1, Len(s) - 1)) ELSE s

\* str.strip()
Strip(s) == RStrip(LStrip(s))

\* str(text_info): a string is itself, a tuple is its repr
PyStr(info) ==
    IF ~info.isTuple THEN info.text
    ELSE IF info.len = 0 THEN <<"(", ")">>
    ELSE <<"(", "'">> \o info.text \o <<"'", ",", ")">>

RECURSIVE SumSeq(_)
SumSeq(s) == IF s = <<>> THEN 0 ELSE Head(s) + SumSeq(Tail(s))

Xs(bbox) == [i \in 1..Len(bbox) |-> bbox[i][1]]
Ys(bbox) == [i \in 1..Len(bbox) |-> bbox[i][2]]

MaxOf(s) == CHOOSE m \in Range(s) : \A v \in Range(s) : v <= m
MinOf(s) == CHOOSE m \in Range(s) : \A v \in Range(s) : m <= v

\* np.mean: the exact quotient, kept as numerator and denominator
Mean(s) == [num |-> SumSeq(s), den |-> Len(s)]

\* round(): num/den to the nearest integer, ties to even
RoundHalfEven(num, den) ==
    LET q == num \div den
        r == num % den
    IN  IF 2 * r < den THEN q
        ELSE IF 2 * r > den THEN q + 1
        ELSE IF q % 2 = 0 THEN q ELSE q + 1

\* the orders in which list(set(...)) may enumerate S
ListsOfSet(S) ==
    {s \in SeqsUpTo(S, Cardinality(S)) : Len(s) = Cardinality(S) /\ Range(s) = S}

\* `if language:` is false for None and for ""
Truthy(language) == language # NONE /\ language # ""

-----------------------------------------------------------------------------
(* OCRProcessor._process_ocr_results *)

DefaultConfidence == 1000

\* the confidence of one line
LineConfidence(info) ==
    IF info.isTuple /\ info.len >= 2 THEN info.conf ELSE DefaultConfidence

\* the text of one line
LineText(info) ==
    IF info.isTuple /\ info.len >= 2 THEN info.text ELSE PyStr(info)

\* Width as the span of the first edge: x of the second point minus x of the first
WidthOfFirstEdge(bbox) == bbox[2][1] - bbox[1][1]

Width(bbox)  == MaxOf(Xs(bbox)) - MinOf(Xs(bbox))
Height(bbox) == MaxOf(Ys(bbox)) - MinOf(Ys(bbox))

\* the body of the for loop: the records one raw line appends
ProcessLine(line, language) ==
    IF line.len >= 2
    THEN <<[text       |-> LineText(line.info),
            confidence |-> LineConfidence(line.info),
            language   |-> language,
            bbox       |-> line.bbox,
            center     |-> <<Mean(Xs(line.bbox)), Mean(Ys(line.bbox))>>,
            dimensions |-> <<Width(line.bbox), Height(line.bbox)>>]>>
    ELSE <<>>

\* ProcessLines with `break` at a short line, where the code goes on to the next
RECURSIVE ProcessLinesUntilShort(_, _)
ProcessLinesUntilShort(ls, language) ==
    IF ls = <<>> \/ Head(ls).len < 2 THEN <<>>
    ELSE ProcessLine(Head(ls), language) \o ProcessLinesUntilShort(Tail(ls), language)

RECURSIVE ProcessLines(_, _)
ProcessLines(ls, language) ==
    IF ls = <<>> THEN <<>>
    ELSE ProcessLine(Head(ls), language) \o ProcessLines(Tail(ls), language)

process_ocr_results(ocr_result, language) ==
    IF ocr_result.isNone \/ ocr_result.pages = <<>>
        THEN <<>>
    ELSE IF ocr_result.pages[1].isNone \/ ocr_result.pages[1].lines = <<>>
        THEN <<>>
    ELSE ProcessLines(ocr_result.pages[1].lines, language)

-----------------------------------------------------------------------------
(* OCRProcessor.process_image *)

Info(event, lang)  == [level |-> "INFO",  event |-> event, lang |-> lang]
Error(event, lang) == [level |-> "ERROR", event |-> event, lang |-> lang]

\* list(self.ocr_models.keys()): the keys in the order of their first insertion
RECURSIVE KeysFrom(_, _, _)
KeysFrom(models, langs, seen) ==
    IF langs = <<>> THEN <<>>
    ELSE IF Head(langs) \in seen \/ Head(langs) \notin DOMAIN models
        THEN KeysFrom(models, Tail(langs), seen)
    ELSE <<Head(langs)>> \o KeysFrom(models, Tail(langs), seen \cup {Head(langs)})

\* Keys as the configured list: `Available: {self.languages}`
KeysAsConfigured(models, langs) == langs

Keys(models, langs) == KeysFrom(models, langs, {})

Raise(status, available) ==
    [status |-> status, results |-> <<>>, available |-> available,
     calls |-> <<>>, log |-> <<>>]

\* one iteration of the loop over languages_to_use: the try block and its handler
LanguageStep(models, lang) ==
    IF models[lang].raises
    THEN [results |-> <<>>,
          calls   |-> <<lang>>,
          log     |-> <<Info("Processing image", lang), Error("Error processing image", lang)>>]
    ELSE [results |-> process_ocr_results(models[lang].out, lang),
          calls   |-> <<lang>>,
          log     |-> <<Info("Processing image", lang)>>]

RECURSIVE LanguageLoop(_, _)
LanguageLoop(models, to_use) ==
    IF to_use = <<>> THEN [results |-> <<>>, calls |-> <<>>, log |-> <<>>]
    ELSE LET first == LanguageStep(models, Head(to_use))
             rest  == LanguageLoop(models, Tail(to_use))
         IN  [results |-> first.results \o rest.results,
              calls   |-> first.calls \o rest.calls,
              log     |-> first.log \o rest.log]

LanguagesToUse(langs, language) == IF Truthy(language) THEN <<language>> ELSE langs

\* process_image with the language looked up before the file
process_image_language_first(models, langs, image, language) ==
    IF Truthy(language) /\ language \notin DOMAIN models
        THEN Raise("LanguageNotInitialized", Keys(models, langs))
    ELSE IF image = "missing" THEN Raise("FileNotFoundError", <<>>)
    ELSE IF image = "invalid" THEN Raise("InvalidImage", <<>>)
    ELSE LET run == LanguageLoop(models, LanguagesToUse(langs, language))
         IN  [status |-> "ok", results |-> run.results, available |-> <<>>,
              calls |-> run.calls, log |-> run.log]

process_image(models, langs, image, language) ==
    IF image = "missing" THEN Raise("FileNotFoundError", <<>>)
    ELSE IF image = "invalid" THEN Raise("InvalidImage", <<>>)
    ELSE IF Truthy(language) /\ language \notin DOMAIN models
        THEN Raise("LanguageNotInitialized", Keys(models, langs))
    ELSE LET run == LanguageLoop(models, LanguagesToUse(langs, language))
         IN  [status |-> "ok", results |-> run.results, available |-> <<>>,
              calls |-> run.calls, log |-> run.log]

-----------------------------------------------------------------------------
(* OCRProcessor.extract_text_only and OCRProcessor.get_detailed_results *)

Undefined == [undefined |-> TRUE]

\* KeepText without the strip(): `if result['text']`
KeepTextUnstripped(result) == result.text # <<>>

\* the condition of the list comprehension
KeepText(result) == Strip(result.text) # <<>>

RECURSIVE TextsOf(_)
TextsOf(results) ==
    IF results = <<>> THEN <<>>
    ELSE (IF KeepText(Head(results)) THEN <<Head(results).text>> ELSE <<>>)
            \o TextsOf(Tail(results))

extract_text_only(models, langs, image, language) ==
    LET r == process_image(models, langs, image, language)
    IN  [called |-> TRUE, status |-> r.status,
         value |-> IF r.status = "ok" THEN TextsOf(r.results) ELSE <<>>,
         available |-> r.available, calls |-> r.calls, log |-> r.log]

\* EmptyResult in the shape of the non-empty dictionary
EmptyResultGrouped ==
    [text_count |-> 0,
     languages_detected |-> <<>>,
     average_confidence |-> 0,
     results |-> <<>>,
     results_by_language |-> <<>>,
     summary |-> [fmt |-> "No text detected", args |-> <<>>]]

EmptyResult ==
    [text_count |-> 0,
     languages_detected |-> <<>>,
     average_confidence |-> 0,
     results |-> <<>>,
     summary |-> [fmt |-> "No text detected", args |-> <<>>]]

TextCount(results) == Len(results)

\* set(result['language'] for result in results)
LanguageSet(results) == {results[i].language : i \in 1..Len(results)}

Confidences(results) == [i \in 1..Len(results) |-> results[i].confidence]

\* results_by_language = {}
NoGroups == [l \in {} |-> <<>>]

\* the loop over results: a new key gets an empty list, then the record is appended
RECURSIVE GroupFrom(_, _)
GroupFrom(results, groups) ==
    IF results = <<>> THEN groups
    ELSE LET lang   == Head(results).language
             opened == IF lang \notin DOMAIN groups THEN (lang :> <<>>) @@ groups
                       ELSE groups
         IN  GroupFrom(Tail(results),
                       [opened EXCEPT ![lang] = Append(opened[lang], Head(results))])

\* GroupByLanguage with `=` for `.append`: a key keeps its latest record only
RECURSIVE GroupFromOverwriting(_, _)
GroupFromOverwriting(results, groups) ==
    IF results = <<>> THEN groups
    ELSE GroupFromOverwriting(Tail(results),
                              (Head(results).language :> <<Head(results)>>) @@ groups)

GroupByLatest(results) == GroupFromOverwriting(results, NoGroups)

GroupByLanguage(results) == GroupFrom(results, NoGroups)

\* the dictionary returned for a non-empty result list; order is the order in
\* which list(set(...)) enumerated the languages
Statistics(results, order) ==
    LET confidences == Confidences(results)
    IN  [text_count |-> TextCount(results),
         languages_detected |-> order,
         average_confidence |-> RoundHalfEven(SumSeq(confidences), Len(confidences)),
         results |-> results,
         results_by_language |-> GroupByLanguage(results),
         summary |-> [fmt |-> "Detected {} text elements in {} languages with {:.1%} average confidence",
                      args |-> <<TextCount(results), Len(order),
                                 RoundHalfEven(SumSeq(confidences), Len(confidences))>>]]

get_detailed_results(models, langs, image, language, order) ==
    LET r == process_image(models, langs, image, language)
    IN  [called |-> TRUE, status |-> r.status,
         value |-> IF r.status # "ok" THEN Undefined
                   ELSE IF r.results = <<>> THEN EmptyResult
                   ELSE Statistics(r.results, order),
         available |-> r.available, calls |-> r.calls, log |-> r.log]

\* DetectedOrders as the languages the query asked for
DetectedOrdersRequested(models, langs, image, language) ==
    {Keys(models, LanguagesToUse(langs, language))}

\* the orders list(set(...)) can produce in get_detailed_results(image, language)
DetectedOrders(models, langs, image, language) ==
    ListsOfSet(LanguageSet(process_image(models, langs, image, language).results))

-----------------------------------------------------------------------------
(* The program: construction, queries, main() *)

DefaultLanguages == <<"en", "hi">>

\* the values --lang accepts that the model has engines for
CliLangChoices == Codes

NoModels == [c \in {} |-> [raises |-> TRUE, out |-> RawNone]]

NoQuery == [image |-> NONE, language |-> NONE]

NoTexts ==
    [called |-> FALSE, status |-> "none", value |-> <<>>, available |-> <<>>,
     calls |-> <<>>, log |-> <<>>]

NoDetailed ==
    [called |-> FALSE, status |-> "none", value |-> Undefined, available |-> <<>>,
     calls |-> <<>>, log |-> <<>>]

NormalizerIdle ==
    [stage |-> "idle", ocr_result |-> RawNone, language |-> NONE,
     processed_results |-> <<>>]

InitProgram ==
    /\ pc = "start"
    /\ mode = "none"
    /\ languages = <<>>
    /\ ocr_models = NoModels
    /\ idx = 1
    /\ built = 0
    /\ init_log = <<>>
    /\ image_path = NONE
    /\ console = <<>>
    /\ query = NoQuery
    /\ texts = NoTexts
    /\ detailed = NoDetailed

Init == InitProgram /\ normalizer = NormalizerIdle

\* where the caller of OCRProcessor(...) is after _initialize_models re-raised
AfterInitFailure == "init_failed"

\* OCRProcessor.__init__ up to the call of _initialize_models
LibConstruct ==
    /\ pc = "start"
    /\ \E isNone \in BOOLEAN, l \in LangLists :
          languages' = IF isNone THEN DefaultLanguages ELSE l
    /\ mode' = "lib"
    /\ ocr_models' = NoModels
    /\ idx' = 1
    /\ pc' = "init_models"
    /\ UNCHANGED <<built, init_log, image_path, console, query, texts, detailed, normalizer>>

\* one iteration of the loop of _initialize_models: PaddleOCR(lang=...) returns
InitModelOk ==
    /\ pc = "init_models"
    /\ idx <= Len(languages)
    /\ \E engine \in EngineBehaviours :
          ocr_models' = (languages[idx] :> engine) @@ ocr_models
    /\ idx' = idx + 1
    /\ built' = built + 1
    /\ init_log' = Append(init_log, Info("Initializing PaddleOCR model", languages[idx]))
    /\ UNCHANGED <<pc, mode, languages, image_path, console, query, texts, detailed, normalizer>>

\* InitModelFail with the try inside the loop: the error is logged, the language
\* is skipped and the loop goes on
InitModelFailContinue ==
    /\ pc = "init_models"
    /\ idx <= Len(languages)
    /\ built' = built + 1
    /\ init_log' = init_log \o <<Info("Initializing PaddleOCR model", languages[idx]),
                                 Error("Failed to initialize OCR models", languages[idx])>>
    /\ idx' = idx + 1
    /\ UNCHANGED <<pc, mode, languages, ocr_models, image_path, console, query, texts,
                   detailed, normalizer>>

\* one iteration of the loop of _initialize_models: PaddleOCR(lang=...) raises;
\* the error is logged and re-raised, and main() prints it and returns
InitModelFail ==
    /\ pc = "init_models"
    /\ idx <= Len(languages)
    /\ built' = built + 1
    /\ init_log' = init_log \o <<Info("Initializing PaddleOCR model", languages[idx]),
                                 Error("Failed to initialize OCR models", languages[idx])>>
    /\ pc' = AfterInitFailure
    /\ console' = IF mode = "cli"
                  THEN Append(console, "Failed to initialize OCR processor")
                  ELSE console
    /\ UNCHANGED <<mode, languages, ocr_models, idx, image_path, query, texts, detailed, normalizer>>

\* the loop of _initialize_models ends: the processor is returned to the caller
InitModelsDone ==
    /\ pc = "init_models"
    /\ idx > Len(languages)
    /\ init_log' = Append(init_log, Info("All OCR models initialized successfully", NONE))
    /\ pc' = "ready"
    /\ console' = IF mode = "cli"
                  THEN Append(console, "OCR processor initialized successfully")
                  ELSE console
    /\ UNCHANGED <<mode, languages, ocr_models, idx, built, image_path, query, texts, detailed, normalizer>>

\* The caller of the library makes any queries in any order.  texts and detailed
\* keep the outcomes of the two operations for the arguments of the latest query.
\* a caller of the library calls ocr.extract_text_only(image, language)
LibExtractTextOnly ==
    /\ pc = "ready"
    /\ mode = "lib"
    /\ \E image \in Images, language \in LangArgs :
          /\ query' = [image |-> image, language |-> language]
          /\ texts' = extract_text_only(ocr_models, languages, image, language)
    /\ detailed' = IF query' = query THEN detailed ELSE NoDetailed
    /\ UNCHANGED <<pc, mode, languages, ocr_models, idx, built, init_log, image_path,
                   console, normalizer>>

\* a caller of the library calls ocr.get_detailed_results(image, language)
LibGetDetailedResults ==
    /\ pc = "ready"
    /\ mode = "lib"
    /\ \E image \in Images, language \in LangArgs :
          /\ query' = [image |-> image, language |-> language]
          /\ \E order \in DetectedOrders(ocr_models, languages, image, language) :
                detailed' = get_detailed_results(ocr_models, languages, image, language, order)
    /\ texts' = IF query' = query THEN texts ELSE NoTexts
    /\ UNCHANGED <<pc, mode, languages, ocr_models, idx, built, init_log, image_path,
                   console, normalizer>>

\* main() with --create-sample
CliCreateSample ==
    /\ pc = "start"
    /\ mode' = "cli"
    /\ \E created \in BOOLEAN :
          console' = <<"Creating sample image...",
                       IF created THEN "Sample image created successfully"
                                  ELSE "Failed to create sample image">>
    /\ pc' = "exit"
    /\ UNCHANGED <<languages, ocr_models, idx, built, init_log, image_path, query,
                   texts, detailed, normalizer>>

\* main() without an image path
CliNoImagePath ==
    /\ pc = "start"
    /\ mode' = "cli"
    /\ console' = <<"usage", "No image path provided">>
    /\ pc' = "exit"
    /\ UNCHANGED <<languages, ocr_models, idx, built, init_log, image_path, query,
                   texts, detailed, normalizer>>

\* main() with the path of a file that does not exist
CliImageNotFound ==
    /\ pc = "start"
    /\ mode' = "cli"
    /\ image_path' = "missing"
    /\ console' = <<"Error: Image file not found">>
    /\ pc' = "exit"
    /\ UNCHANGED <<languages, ocr_models, idx, built, init_log, query, texts, detailed,
                   normalizer>>

\* main() with the path of an existing file: OCRProcessor(languages=args.languages)
CliConstruct ==
    /\ pc = "start"
    /\ mode' = "cli"
    /\ \E image \in Images \ {"missing"} : image_path' = image
    /\ \E l \in LangLists \ {<<>>} : languages' = l
    /\ console' = <<"Initializing OCR processor">>
    /\ ocr_models' = NoModels
    /\ idx' = 1
    /\ pc' = "init_models"
    /\ UNCHANGED <<built, init_log, query, texts, detailed, normalizer>>

\* what main() prints around the query
Printed(outcome, heading) ==
    <<"Processing image",
      IF outcome.status = "ok" THEN heading ELSE "Error processing image">>

\* main() without --detailed: ocr.extract_text_only(args.image_path, args.lang)
CliExtractTextOnly ==
    /\ pc = "ready"
    /\ mode = "cli"
    /\ \E language \in CliLangChoices \cup {NONE} :
          /\ query' = [image |-> image_path, language |-> language]
          /\ texts' = extract_text_only(ocr_models, languages, image_path, language)
    /\ console' = console \o Printed(texts', "OCR Results")
    /\ pc' = "exit"
    /\ UNCHANGED <<mode, languages, ocr_models, idx, built, init_log, image_path,
                   detailed, normalizer>>

\* main() with --detailed: ocr.get_detailed_results(args.image_path, args.lang)
CliGetDetailedResults ==
    /\ pc = "ready"
    /\ mode = "cli"
    /\ \E language \in CliLangChoices \cup {NONE} :
          /\ query' = [image |-> image_path, language |-> language]
          /\ \E order \in DetectedOrders(ocr_models, languages, image_path, language) :
                detailed' = get_detailed_results(ocr_models, languages, image_path, language, order)
    /\ console' = console \o Printed(detailed', "Detailed OCR Results")
    /\ pc' = "exit"
    /\ UNCHANGED <<mode, languages, ocr_models, idx, built, init_log, image_path,
                   texts, normalizer>>

Next ==
    \/ LibConstruct
    \/ InitModelOk
    \/ InitModelFail
    \/ InitModelsDone
    \/ LibExtractTextOnly
    \/ LibGetDetailedResults
    \/ CliCreateSample
    \/ CliNoImagePath
    \/ CliImageNotFound
    \/ CliConstruct
    \/ CliExtractTextOnly
    \/ CliGetDetailedResults

Spec == Init /\ [][Next]_vars

-----------------------------------------------------------------------------
(* _process_ocr_results alone, on every raw result *)

InitNormalizer ==
    /\ InitProgram
    /\ \E r \in RawResults, l \in Codes :
          normalizer = [stage |-> "called", ocr_result |-> r, language |-> l,
                        processed_results |-> <<>>]

\* self._process_ocr_results(ocr_result, lang)
Normalize ==
    /\ normalizer.stage = "called"
    /\ normalizer' =
          [normalizer EXCEPT
              !.stage = "returned",
              !.processed_results =
                  process_ocr_results(normalizer.ocr_result, normalizer.language)]
    /\ UNCHANGED <<pc, mode, languages, ocr_models, idx, built, init_log, image_path,
                   console, query, texts, detailed>>

NextNormalizer == Normalize

SpecNormalizer == InitNormalizer /\ [][NextNormalizer]_vars

-----------------------------------------------------------------------------

TypeOK ==
    /\ pc \in {"start", "init_models", "ready", "init_failed", "exit"}
    /\ mode \in {"none", "lib", "cli"}
    /\ languages \in LangLists
    /\ DOMAIN ocr_models \subseteq Codes
    /\ idx \in 1..(MaxLangs + 1)
    /\ built \in 0..MaxLangs
    /\ normalizer.stage \in {"idle", "called", "returned"}

-----------------------------------------------------------------------------
(* Claims *)

\* the records an outcome of get_detailed_results carries
ResultsOf(outcome) == outcome.value.results

TaggedWith(results, l) == SelectSeq(results, LAMBDA r : r.language = l)

\* a query over all configured languages of a valid image has returned
MultiLanguageQueryDone(outcome) ==
    outcome.called /\ query.image = "valid" /\ ~Truthy(query.language)

\* C1: in a query with no explicit language, when the engine of a configured
\* language A raises and the engine of a configured language B returns, the query
\* returns normally, the records tagged B are exactly the records B's output
\* normalizes to, in B's order, no record is tagged A, and an error is logged for A
\* (wherever A and B stand in the configured list).
C1_FailureIsolated ==
    MultiLanguageQueryDone(detailed) =>
        \A A \in Range(languages), B \in Range(languages) :
            (ocr_models[A].raises /\ ~ocr_models[B].raises) =>
                /\ detailed.status = "ok"
                /\ TaggedWith(ResultsOf(detailed), B)
                      = process_ocr_results(ocr_models[B].out, B)
                /\ TaggedWith(ResultsOf(detailed), A) = <<>>
                /\ Error("Error processing image", A) \in Range(detailed.log)

\* C1 fails on a list that repeats B; apart from that the isolation holds:
\* the same statement for every B that the configured list names once.
C1_FailureIsolatedOnce ==
    MultiLanguageQueryDone(detailed) =>
        \A A \in Range(languages), B \in Range(languages) :
            (/\ ocr_models[A].raises
             /\ ~ocr_models[B].raises
             /\ Cardinality({i \in 1..Len(languages) : languages[i] = B}) = 1) =>
                /\ detailed.status = "ok"
                /\ TaggedWith(ResultsOf(detailed), B)
                      = process_ocr_results(ocr_models[B].out, B)
                /\ TaggedWith(ResultsOf(detailed), A) = <<>>
                /\ Error("Error processing image", A) \in Range(detailed.log)

\* the lines of a raw result: those of its first page, if it has one
RawLines(ocr_result) ==
    IF ocr_result.isNone \/ ocr_result.pages = <<>> THEN <<>>
    ELSE IF ocr_result.pages[1].isNone THEN <<>>
    ELSE ocr_result.pages[1].lines

\* the language argument of the query selects engines of the registry
LanguageAccepted == ~Truthy(query.language) \/ query.language \in DOMAIN ocr_models

\* every engine the query selects raises or yields no record
ZeroDetections ==
    \A l \in Range(LanguagesToUse(languages, query.language)) :
        \/ ocr_models[l].raises
        \/ ocr_models[l].out.isNone
        \/ ocr_models[l].out.pages = <<>>
        \/ ocr_models[l].out.pages[1].isNone
        \/ \A i \in 1..Len(ocr_models[l].out.pages[1].lines) :
              ocr_models[l].out.pages[1].lines[i].len < 2

ZeroDetectionQuery == query.image = "valid" /\ LanguageAccepted /\ ZeroDetections

\* C2: on a valid image for which the selected engines yield no record,
\* get_detailed_results returns the object with exactly the five keys text_count 0,
\* languages_detected [], average_confidence 0.0, results [] and summary
\* "No text detected", and extract_text_only returns the empty sequence.
C2_CanonicalEmpty ==
    /\ (detailed.called /\ ZeroDetectionQuery) =>
          /\ detailed.status = "ok"
          /\ DOMAIN detailed.value = {"text_count", "languages_detected",
                                      "average_confidence", "results", "summary"}
          /\ detailed.value.text_count = 0
          /\ detailed.value.languages_detected = <<>>
          /\ detailed.value.average_confidence = 0
          /\ detailed.value.results = <<>>
          /\ detailed.value.summary = [fmt |-> "No text detected", args |-> <<>>]
    /\ (texts.called /\ ZeroDetectionQuery) =>
          /\ texts.status = "ok"
          /\ texts.value = <<>>

\* both operations have answered a query whose engines ran and found nothing
C2_Witness ==
    /\ detailed.called
    /\ texts.called
    /\ ZeroDetectionQuery
    /\ Len(detailed.calls) >= 2
    /\ \E l \in Range(languages) : RawLines(ocr_models[l].out) # <<>>
    /\ \E l \in Range(languages) : ocr_models[l].raises

\* the texts of the records whose text is more than whitespace, in order
RECURSIVE NonBlankTexts(_)
NonBlankTexts(results) ==
    IF results = <<>> THEN <<>>
    ELSE (IF \E i \in 1..Len(Head(results).text) : Head(results).text[i] \notin Whitespace
          THEN <<Head(results).text>> ELSE <<>>) \o NonBlankTexts(Tail(results))

\* C3: for the same processor, image and language argument, extract_text_only
\* fails exactly when get_detailed_results fails, and otherwise returns the text
\* fields of get_detailed_results(...).results whose trimmed text is non-empty, in
\* the same order.
C3_TextsAreProjection ==
    (texts.called /\ detailed.called) =>
        /\ texts.status = detailed.status
        /\ detailed.status = "ok" => texts.value = NonBlankTexts(ResultsOf(detailed))

\* both operations returned, and the projection dropped one record and kept another
C3_Witness ==
    /\ texts.called
    /\ detailed.called
    /\ detailed.status = "ok"
    /\ texts.value # <<>>
    /\ Len(texts.value) < Len(ResultsOf(detailed))

\* the query named a language, and the registry has no engine for it
UninitializedLanguage == query.language # NONE /\ query.language \notin DOMAIN ocr_models

NoDuplicates(seq) == Cardinality(Range(seq)) = Len(seq)

LanguageNotInitialized(outcome) ==
    /\ outcome.status = "LanguageNotInitialized"
    /\ Range(outcome.available) = DOMAIN ocr_models
    /\ NoDuplicates(outcome.available)
    /\ outcome.calls = <<>>

\* C4 as stated: every query whose explicit language argument is not in the
\* registry fails with 'language not initialized', its payload lists exactly the
\* codes an engine was initialized for, and no engine is invoked.
C4_AnyImage ==
    /\ (texts.called /\ UninitializedLanguage) => LanguageNotInitialized(texts)
    /\ (detailed.called /\ UninitializedLanguage) => LanguageNotInitialized(detailed)

\* C4, amended: on an existing, valid image, every query whose explicit language
\* argument is a non-empty code that is not in the registry fails with 'language
\* not initialized', its payload lists exactly the codes an engine was initialized
\* for, each once, and no engine is invoked.
C4_ValidImage ==
    /\ (texts.called /\ query.image = "valid" /\ query.language # ""
            /\ UninitializedLanguage) => LanguageNotInitialized(texts)
    /\ (detailed.called /\ query.image = "valid" /\ query.language # ""
            /\ UninitializedLanguage) => LanguageNotInitialized(detailed)

\* both operations refused a language the registry lacks, on a processor whose
\* configured list repeats the code it has
C4_Witness ==
    /\ texts.called
    /\ detailed.called
    /\ query.image = "valid"
    /\ query.language \in Codes \ DOMAIN ocr_models
    /\ texts.status = "LanguageNotInitialized"
    /\ Len(languages) > Len(texts.available)
    /\ texts.available # <<>>

\* C5: when the image path does not exist, every query fails with the
\* file-not-found error and no engine's ocr is called in it, whatever the language
\* argument; and main() reports a missing image file before any engine is
\* constructed.
C5_FileNotFoundFirst ==
    /\ (texts.called /\ query.image = "missing") =>
          texts.status = "FileNotFoundError" /\ texts.calls = <<>>
    /\ (detailed.called /\ query.image = "missing") =>
          detailed.status = "FileNotFoundError" /\ detailed.calls = <<>>
    /\ (mode = "cli" /\ image_path = "missing") =>
          /\ console = <<"Error: Image file not found">>
          /\ built = 0
          /\ ocr_models = NoModels
          /\ pc = "exit"

\* a query for a language the registry lacks, on a path that does not exist
C5_Witness ==
    /\ texts.called
    /\ detailed.called
    /\ query.image = "missing"
    /\ query.language \in Codes \ DOMAIN ocr_models
    /\ DOMAIN ocr_models # {}

\* main() was given a path that does not exist
C5_WitnessCli == mode = "cli" /\ image_path = "missing" /\ pc = "exit"

\* C6: when the construction of one engine fails, no processor is returned: the
\* caller never holds a processor whose registry lacks a configured language, no
\* query runs after the failure, and main() processes no image after it.
C6_NoPartialProcessor ==
    /\ pc = "ready" => DOMAIN ocr_models = Range(languages)
    /\ (texts.called \/ detailed.called) =>
          /\ DOMAIN ocr_models = Range(languages)
          /\ pc \in {"ready", "exit"}
          /\ built = Len(languages)
    /\ pc = "init_failed" =>
          /\ ~texts.called
          /\ ~detailed.called
          /\ "Processing image" \notin Range(console)
          /\ ~ENABLED Next

\* the second engine of a processor failed to construct: the registry holds one
C6_Witness ==
    /\ pc = "init_failed"
    /\ DOMAIN ocr_models # {}
    /\ DOMAIN ocr_models # Range(languages)

\* main() printed the failure of the initialization and returned
C6_WitnessCli ==
    /\ pc = "init_failed"
    /\ mode = "cli"
    /\ console = <<"Initializing OCR processor", "Failed to initialize OCR processor">>

\* get_detailed_results returned the dictionary of a non-empty result list
NonEmptyResult == detailed.called /\ detailed.status = "ok" /\ ResultsOf(detailed) # <<>>

\* the engine of l, when called, gives the query no record
YieldsNothing(l) ==
    \/ ocr_models[l].raises
    \/ \A i \in 1..Len(ocr_models[l].out.pages) :
          \/ ocr_models[l].out.pages[i].isNone
          \/ \A j \in 1..Len(ocr_models[l].out.pages[i].lines) :
                ocr_models[l].out.pages[i].lines[j].len < 2

\* C7: in every non-empty result of get_detailed_results, languages_detected holds
\* exactly the codes that tag a record of results, each once, a requested language
\* whose engine raised or yielded no record is absent, and text_count is the number
\* of records of results.
C7_LanguagesDetected ==
    NonEmptyResult =>
        /\ Range(detailed.value.languages_detected)
              = {l \in Codes : \E i \in 1..Len(ResultsOf(detailed)) :
                                  ResultsOf(detailed)[i].language = l}
        /\ NoDuplicates(detailed.value.languages_detected)
        /\ \A l \in Range(detailed.calls) :
              YieldsNothing(l) => l \notin Range(detailed.value.languages_detected)
        /\ detailed.value.text_count = Len(ResultsOf(detailed))

\* a non-empty result of two engines, one of which contributed nothing
C7_Witness ==
    /\ NonEmptyResult
    /\ Cardinality(Range(detailed.calls)) = 2
    /\ Len(detailed.value.languages_detected) = 1
    /\ detailed.value.text_count >= 2

\* C8: every record the normalizer produces has its confidence in [0,1] and both
\* components of dimensions greater than or equal to 0.
C8_RecordRanges ==
    normalizer.stage = "returned" =>
        \A i \in 1..Len(normalizer.processed_results) :
            LET record == normalizer.processed_results[i]
            IN  /\ record.confidence >= 0
                /\ record.confidence <= 1000
                /\ record.dimensions[1] >= 0
                /\ record.dimensions[2] >= 0

\* records of a rotated box, with a confidence of the engine and with the default
C8_Witness ==
    /\ normalizer.stage = "returned"
    /\ \E i, j \in 1..Len(normalizer.processed_results) :
          /\ normalizer.processed_results[i].bbox = PolyRot
          /\ normalizer.processed_results[i].confidence = 0
          /\ normalizer.processed_results[j].confidence = 1000
          /\ normalizer.processed_results[j].dimensions = <<5, 5>>

\* C9: for any raw engine output, a line with fewer than 2 fields produces no
\* record and no error, and every other line of the output produces exactly one
\* record, in the engine's order.
C9_ShortLinesDropped ==
    normalizer.stage = "returned" =>
        LET full == SelectSeq(RawLines(normalizer.ocr_result), LAMBDA line : line.len >= 2)
            out  == normalizer.processed_results
        IN  /\ Len(out) = Len(full)
            /\ \A i \in 1..Len(full) :
                  /\ out[i].bbox = full[i].bbox
                  /\ out[i].language = normalizer.language
                  /\ (full[i].info.isTuple /\ full[i].info.len >= 2) =>
                        /\ out[i].text = full[i].info.text
                        /\ out[i].confidence = full[i].info.conf
                  /\ ~full[i].info.isTuple => out[i].text = full[i].info.text

\* a short line between two different full lines
C9_Witness ==
    /\ normalizer.stage = "returned"
    /\ Len(RawLines(normalizer.ocr_result)) = 3
    /\ RawLines(normalizer.ocr_result)[1].len >= 2
    /\ RawLines(normalizer.ocr_result)[2].len < 2
    /\ RawLines(normalizer.ocr_result)[3].len >= 2
    /\ RawLines(normalizer.ocr_result)[1] # RawLines(normalizer.ocr_result)[3]
    /\ Len(normalizer.processed_results) = 2

\* the number of calls of the engine of l in a query
Invocations(outcome, l) == Cardinality({i \in 1..Len(outcome.calls) : outcome.calls[i] = l})

\* the records of the engines of the languages of seq, one after the other
RECURSIVE RecordsInOrder(_)
RecordsInOrder(seq) ==
    IF seq = <<>> THEN <<>>
    ELSE (IF ocr_models[Head(seq)].raises THEN <<>>
          ELSE process_ocr_results(ocr_models[Head(seq)].out, Head(seq)))
            \o RecordsInOrder(Tail(seq))

\* C10: in a query over all configured languages, every language of the registry
\* has its engine invoked exactly once, in the configured order, and the result is
\* the concatenation of the per-language record lists in that order; with an
\* explicit initialized language only that engine is invoked, once.  For every
\* configured list, also one that repeats a code.
C10_OncePerLanguage ==
    /\ MultiLanguageQueryDone(detailed) =>
          /\ \A l \in DOMAIN ocr_models : Invocations(detailed, l) = 1
          /\ \A i, j \in 1..Len(detailed.calls) :
                i < j => \E m, n \in 1..Len(languages) :
                            m < n /\ languages[m] = detailed.calls[i]
                                  /\ languages[n] = detailed.calls[j]
          /\ ResultsOf(detailed) = RecordsInOrder(detailed.calls)
    /\ (detailed.called /\ query.image = "valid" /\ Truthy(query.language)
            /\ query.language \in DOMAIN ocr_models) =>
          detailed.calls = <<query.language>>

\* What holds instead of C10: one invocation for every entry of the configured list.
C10_OncePerEntry ==
    /\ MultiLanguageQueryDone(detailed) =>
          /\ detailed.calls = languages
          /\ ResultsOf(detailed) = RecordsInOrder(languages)
    /\ (detailed.called /\ query.image = "valid" /\ Truthy(query.language)
            /\ query.language \in DOMAIN ocr_models) =>
          detailed.calls = <<query.language>>

\* the sizes of the groups of the languages of seq, added up
RECURSIVE GroupSizes(_, _)
GroupSizes(groups, seq) ==
    IF seq = <<>> THEN 0 ELSE Len(groups[Head(seq)]) + GroupSizes(groups, Tail(seq))

\* C11: in every non-empty result of get_detailed_results, the keys of
\* results_by_language are the languages of languages_detected, the group of a key
\* is the subsequence of results tagged with it, in the same order, no group is
\* empty, and the sizes of the groups add up to text_count.
C11_GroupsPartitionResults ==
    NonEmptyResult =>
        LET groups == detailed.value.results_by_language
        IN  /\ DOMAIN groups = Range(detailed.value.languages_detected)
            /\ \A l \in DOMAIN groups :
                  /\ groups[l] = TaggedWith(ResultsOf(detailed), l)
                  /\ groups[l] # <<>>
            /\ GroupSizes(groups, detailed.value.languages_detected)
                  = detailed.value.text_count

\* two groups, the records of one of them apart in results
C11_Witness ==
    /\ NonEmptyResult
    /\ Cardinality(DOMAIN detailed.value.results_by_language) = 2
    /\ \E i, j, k \in 1..Len(ResultsOf(detailed)) :
          /\ i < j
          /\ j < k
          /\ ResultsOf(detailed)[i].language = ResultsOf(detailed)[k].language
          /\ ResultsOf(detailed)[i].language # ResultsOf(detailed)[j].language
          /\ ResultsOf(detailed)[i] # ResultsOf(detailed)[k]

====
